---- MODULE Spec2Model ----
(***************************************************************************)
(* A model of the HyperLogLog cardinality estimator of nano-hyperloglog    *)
(* (src/src/hll.rs): construction, add, merge, clone, the serde round      *)
(* trip and count; of its file storage (src/src/storage/file.rs); and of   *)
(* the pfadd and pfmerge handlers (src/src/api/handlers.rs).               *)
(*                                                                         *)
(* A 64-bit hash is a function from bit position 0..63 (0 is the most      *)
(* significant bit) to {0,1}; shifts and leading_zeros work on it bit by   *)
(* bit, so the width of the Rust u64 is kept.  A Vec<u8> is a function on  *)
(* 0..len-1, as the source indexes it.  An Option/Result is a record with  *)
(* an `ok` field.                                                          *)
(***************************************************************************)
EXTENDS Integers, Sequences, FiniteSets, TLC

VARIABLES hlls, fed, last, files, reqs

vars == <<hlls, fed, last, files, reqs>>

(***************************************************************************)
(* Bounds of the model.                                                    *)
(***************************************************************************)
\* The estimators a caller owns (three let-bindings).
Slots == {"h1", "h2", "h3"}

\* The two of them used where three are not needed.
PairSlots == {"h1", "h2"}

\* The precisions the caller passes to new(): the two smallest valid ones and
\* the invalid ones next to the limits.
PrecisionInputs == {3, 4, 5, 17}

\* One valid and one invalid precision, for the runs with three estimators.
FewPrecisions == {3, 4}

\* Elements.  XXH64 with a fixed seed is a bijection on 8-byte inputs
\* (every step of its short-input path is invertible), so each 64-bit value
\* is the hash of exactly one u64 element; the u64 elements below are the
\* preimages of the hashes listed in XxHash64.
U64Elements ==
    { [ty |-> "u64", v |-> "4130657994142680435"],
      [ty |-> "u64", v |-> "16739598700124894650"],
      [ty |-> "u64", v |-> "13502795825849532324"] }

StrElements == { [ty |-> "str", v |-> "user:1"] }

Elements == U64Elements \cup StrElements

\* The precision of the callers that use one precision.
StorePrecisions == {4}

\* The elements of the callers of the storage.
StoreElements ==
    { [ty |-> "u64", v |-> "4130657994142680435"],
      [ty |-> "str", v |-> "user:1"] }

\* Fewer elements, for the runs with three estimators.
FewElements ==
    { [ty |-> "u64", v |-> "4130657994142680435"],
      [ty |-> "u64", v |-> "16739598700124894650"],
      [ty |-> "str", v |-> "user:1"] }

(***************************************************************************)
(* Integer helpers.                                                        *)
(***************************************************************************)
Pow2Table ==
    <<1, 2, 4, 8, 16, 32, 64, 128, 256, 512, 1024, 2048, 4096, 8192, 16384,
      32768, 65536, 131072, 262144, 524288, 1048576, 2097152, 4194304,
      8388608, 16777216, 33554432, 67108864, 134217728, 268435456,
      536870912, 1073741824>>

\* 1 << n, for n up to 30
Pow2(n) == Pow2Table[n + 1]

Max(a, b) == IF a >= b THEN a ELSE b

\* Arithmetic on u8 wraps modulo 2^8.
U8(x) == x % 256

(***************************************************************************)
(* 64-bit words.                                                           *)
(***************************************************************************)
BitPos == 0..63

Pow2Limb == <<32768, 16384, 8192, 4096, 2048, 1024, 512, 256, 128, 64, 32, 16, 8, 4, 2, 1>>

\* The word whose four 16-bit limbs, most significant first, are l.
U64(l) == [i \in BitPos |-> (l[(i \div 16) + 1] \div Pow2Limb[(i % 16) + 1]) % 2]

\* hash >> n
Shr(w, n) == [i \in BitPos |-> IF i >= n THEN w[i - n] ELSE 0]

\* hash << n
Shl(w, n) == [i \in BitPos |-> IF i + n <= 63 THEN w[i + n] ELSE 0]

IsZeroU64(w) == \A i \in BitPos : w[i] = 0

\* u64::leading_zeros
LeadingZerosU64(w) ==
    IF IsZeroU64(w) THEN 64
    ELSE CHOOSE i \in BitPos : w[i] = 1 /\ \A j \in 0..(i - 1) : w[j] = 0

\* `as usize` of a word whose value fits the model's integers.
AsUsize(w) ==
    LET val[i \in 0..64] == IF i = 0 THEN 0 ELSE 2 * val[i - 1] + w[i - 1]
    IN  val[64]

(***************************************************************************)
(* The hasher.  XxHash64::with_seed(seed), fed the element's Hash bytes    *)
(* (8 little-endian bytes of a u64; a str's bytes followed by 0xff),       *)
(* finish().  The values are those of XXH64; seed 0 is the seed the        *)
(* program uses.  An element of type "u64 of hash" is the u64 whose hash   *)
(* under seed 0 is the word v (there is exactly one).                      *)
(***************************************************************************)
XxHash64(seed, element) ==
    CASE seed = 0 /\ element.ty = "u64 of hash" -> element.v
      [] seed = 0 /\ element.v = "4130657994142680435"  -> U64(<<0, 0, 0, 0>>)
      [] seed = 0 /\ element.v = "16739598700124894650" -> U64(<<2048, 0, 0, 0>>)
      [] seed = 0 /\ element.v = "13502795825849532324" -> U64(<<256, 0, 0, 1>>)
      [] seed = 0 /\ element.v = "user:1" -> U64(<<23672, 12200, 46522, 18610>>)
      [] seed = 0 /\ element.v = "user:2" -> U64(<<3771, 8742, 17148, 48042>>)
      [] seed = 1 /\ element.v = "user:2" -> U64(<<18744, 10175, 26435, 2997>>)
      [] seed = 1 /\ element.v = "4130657994142680435"  -> U64(<<47866, 63138, 11893, 31486>>)
      [] seed = 1 /\ element.v = "16739598700124894650" -> U64(<<10791, 9943, 16685, 30581>>)
      [] seed = 1 /\ element.v = "13502795825849532324" -> U64(<<27134, 60510, 3275, 46260>>)
      [] seed = 1 /\ element.v = "user:1" -> U64(<<24123, 58374, 16836, 698>>)

(***************************************************************************)
(* Results.                                                                *)
(***************************************************************************)
Ok(x) == [ok |-> TRUE, val |-> x]

Err(kind, payload) == [ok |-> FALSE, kind |-> kind, payload |-> payload]

Unit == "()"

\* Option
None == <<>>
Some(x) == <<x>>

(***************************************************************************)
(* HyperLogLog                                                             *)
(***************************************************************************)
MinPrecision == 4
MaxPrecision == 16

\* vec![0; n]
ZeroVec(n) == [i \in 0..(n - 1) |-> 0]

VecLen(v) == Cardinality(DOMAIN v)

\* new() with the upper limit excluded (4..16 for 4..=16).
New_exclusive_range(precision) ==
    IF ~(precision \in MinPrecision..(MaxPrecision - 1))
    THEN Err("InvalidPrecision", precision)
    ELSE LET m == Pow2(precision)
         IN  Ok([precision |-> precision, m |-> m, registers |-> ZeroVec(m)])

\* HyperLogLog::new
New(precision) ==
    IF ~(precision \in MinPrecision..MaxPrecision)
    THEN Err("InvalidPrecision", precision)
    ELSE LET m == Pow2(precision)
         IN  Ok([precision |-> precision, m |-> m, registers |-> ZeroVec(m)])

\* hash_element with a seed taken from process state (the number of estimators
\* alive at the call) instead of the constant 0.
hash_element_process_seed(self, element) ==
    XxHash64(Cardinality({s \in Slots : hlls[s] # <<>>}) % 2, element)

\* HyperLogLog::hash_element
hash_element(self, element) == XxHash64(0, element)

\* add() without the case remaining == 0: the rank is leading_zeros() + 1.
Add_no_zero_case(self, element) ==
    LET hash == hash_element(self, element)
        idx == AsUsize(Shr(hash, 64 - self.precision))
        remaining == Shl(hash, self.precision)
        leading_zeros == U8(U8(LeadingZerosU64(remaining)) + 1)
    IN  IF leading_zeros > self.registers[idx]
        THEN [self EXCEPT !.registers[idx] = leading_zeros]
        ELSE self

\* add() that stores the rank without comparing it with the register.
Add_overwrite(self, element) ==
    LET hash == hash_element(self, element)
        idx == AsUsize(Shr(hash, 64 - self.precision))
        remaining == Shl(hash, self.precision)
        leading_zeros ==
            IF IsZeroU64(remaining)
            THEN U8(U8(64 - self.precision) + 1)
            ELSE U8(U8(LeadingZerosU64(remaining)) + 1)
    IN  [self EXCEPT !.registers[idx] = leading_zeros]

\* HyperLogLog::add: the estimator after the call.
Add(self, element) ==
    LET hash == hash_element(self, element)
        idx == AsUsize(Shr(hash, 64 - self.precision))
        remaining == Shl(hash, self.precision)
        leading_zeros ==
            IF IsZeroU64(remaining)
            THEN U8(U8(64 - self.precision) + 1)
            ELSE U8(U8(LeadingZerosU64(remaining)) + 1)
    IN  IF leading_zeros > self.registers[idx]
        THEN [self EXCEPT !.registers[idx] = leading_zeros]
        ELSE self

\* HyperLogLog::add_str
AddStr(self, element) == Add(self, element)

\* for e in elems { h.add(&e) }
AddSeq(h, elems) ==
    LET upto[i \in 0..Len(elems)] ==
            IF i = 0 THEN h ELSE Add(upto[i - 1], elems[i])
    IN  upto[Len(elems)]

MergeMsg == "Cannot merge HyperLogLogs with different precision"

\* merge() with the comparison reversed (val < self.registers[i]).
Merge_lt(self, other) ==
    IF self.precision # other.precision
    THEN [res |-> Err("Storage", MergeMsg), self |-> self]
    ELSE [res |-> Ok(Unit),
          self |-> [self EXCEPT !.registers =
                      [i \in DOMAIN self.registers |->
                          IF i \in DOMAIN other.registers
                             /\ other.registers[i] < self.registers[i]
                          THEN other.registers[i]
                          ELSE self.registers[i]]]]

\* merge() that copies other's registers without comparing.
Merge_overwrite(self, other) ==
    IF self.precision # other.precision
    THEN [res |-> Err("Storage", MergeMsg), self |-> self]
    ELSE [res |-> Ok(Unit),
          self |-> [self EXCEPT !.registers =
                      [i \in DOMAIN self.registers |->
                          IF i \in DOMAIN other.registers
                          THEN other.registers[i]
                          ELSE self.registers[i]]]]

\* HyperLogLog::merge: the result and the estimator (self) after the call.
\* other is borrowed immutably and is not part of the outcome.
Merge(self, other) ==
    IF self.precision # other.precision
    THEN [res |-> Err("Storage", MergeMsg), self |-> self]
    ELSE [res |-> Ok(Unit),
          self |-> [self EXCEPT !.registers =
                      [i \in DOMAIN self.registers |->
                          IF i \in DOMAIN other.registers
                             /\ other.registers[i] > self.registers[i]
                          THEN other.registers[i]
                          ELSE self.registers[i]]]]

\* A clone that copies the shape and starts from empty registers.
Clone_empty_registers(self) ==
    [precision |-> self.precision, m |-> self.m,
     registers |-> [i \in DOMAIN self.registers |-> 0]]

\* #[derive(Clone)]: a deep copy of the three fields.
Clone(self) ==
    [precision |-> self.precision, m |-> self.m,
     registers |-> [i \in DOMAIN self.registers |-> self.registers[i]]]

(***************************************************************************)
(* serde_json round trip of the derived Serialize/Deserialize: the JSON    *)
(* object {"precision":..,"m":..,"registers":[..]} with every number       *)
(* written as its decimal digits.                                          *)
(***************************************************************************)
RECURSIVE ToDecimal(_)
ToDecimal(n) ==
    IF n < 10 THEN <<n>> ELSE Append(ToDecimal(n \div 10), n % 10)

RECURSIVE FromDecimal(_)
FromDecimal(d) ==
    IF Len(d) = 1 THEN d[1]
    ELSE 10 * FromDecimal(SubSeq(d, 1, Len(d) - 1)) + d[Len(d)]

Serialize(self) ==
    [precision |-> ToDecimal(self.precision),
     m |-> ToDecimal(self.m),
     registers |-> [k \in 1..VecLen(self.registers) |->
                       ToDecimal(self.registers[k - 1])]]

\* Deserialize that reads m from the precision field.
Deserialize_m_from_precision(json) ==
    LET p == FromDecimal(json.precision)
        regs == [i \in 0..(Len(json.registers) - 1) |->
                    FromDecimal(json.registers[i + 1])]
    IN  IF p > 255 \/ \E i \in DOMAIN regs : regs[i] > 255
        THEN Err("Serialization", "invalid value")
        ELSE Ok([precision |-> p, m |-> p, registers |-> regs])

\* The derived Deserialize checks each number against its type (u8 for
\* precision and the registers) and nothing else.
Deserialize(json) ==
    LET p == FromDecimal(json.precision)
        regs == [i \in 0..(Len(json.registers) - 1) |->
                    FromDecimal(json.registers[i + 1])]
    IN  IF p > 255 \/ \E i \in DOMAIN regs : regs[i] > 255
        THEN Err("Serialization", "invalid value")
        ELSE Ok([precision |-> p, m |-> FromDecimal(json.m), registers |-> regs])

(***************************************************************************)
(* f64.  A non-negative float is man * 2^exp with a 30-bit mantissa        *)
(* (2^29 <= man < 2^30, or man = 0); results are truncated to 30 bits      *)
(* where f64 rounds to 53.  The operations count() uses: +, -, *, /, <=,   *)
(* ln and the conversions from and to integers.                            *)
(***************************************************************************)
FMant == 1073741824

FHalf == 536870912

Flt(man, exp) == [man |-> man, exp |-> exp]

FZero == Flt(0, 0)

\* The number of bits of man, for 0 < man < 2^30.
BitLen(man) == CHOOSE k \in 1..30 : Pow2(k - 1) <= man /\ man < Pow2(k)

FNormUp(man, exp) ==
    LET up == 30 - BitLen(man)
    IN  Flt(man * Pow2(up), exp - up)

\* The float of value man * 2^exp, for 0 <= man < 2^31.
FNorm(man, exp) ==
    IF man = 0 THEN FZero
    ELSE IF man >= FMant THEN Flt(man \div 2, exp + 1)
    ELSE FNormUp(man, exp)

\* n as f64
FromNat(n) == FNorm(n, 0)

FOne == FromNat(1)

FAdd(a, b) ==
    IF a.man = 0 THEN b
    ELSE IF b.man = 0 THEN a
    ELSE LET hi == IF a.exp >= b.exp THEN a ELSE b
             lo == IF a.exp >= b.exp THEN b ELSE a
             d == hi.exp - lo.exp
         IN  IF d >= 31 THEN hi
             ELSE FNorm(hi.man + (lo.man \div Pow2(d)), hi.exp)

\* a - b for a >= b
FSub(a, b) ==
    IF b.man = 0 THEN a
    ELSE LET d == a.exp - b.exp
         IN  IF d >= 31 THEN a
             ELSE FNorm(a.man - (b.man \div Pow2(d)), a.exp)

FMul(a, b) ==
    IF a.man = 0 \/ b.man = 0 THEN FZero
    ELSE LET a1 == a.man \div 32768
             a0 == a.man % 32768
             b1 == b.man \div 32768
             b0 == b.man % 32768
             mid == a1 * b0 + a0 * b1
             rem == (mid % 32768) * 32768 + a0 * b0
             hi == a1 * b1 + (mid \div 32768) + (rem \div FMant)
         IN  FNorm(hi, a.exp + b.exp + 30)

\* n further bits of the quotient q, with remainder rem, of a division by d.
RECURSIVE FDivBits(_, _, _, _)
FDivBits(q, rem, d, n) ==
    IF n = 0 THEN q
    ELSE IF 2 * rem >= d
         THEN FDivBits(2 * q + 1, 2 * rem - d, d, n - 1)
         ELSE FDivBits(2 * q, 2 * rem, d, n - 1)

\* a / b for b > 0
FDiv(a, b) ==
    IF a.man = 0 THEN FZero
    ELSE LET q == IF a.man >= b.man
                  THEN FDivBits(1, a.man - b.man, b.man, 29)
                  ELSE FDivBits(0, a.man, b.man, 29)
         IN  FNorm(q, a.exp - b.exp - 29)

\* a <= b
FLeq(a, b) ==
    IF a.man = 0 THEN TRUE
    ELSE IF b.man = 0 THEN FALSE
    ELSE IF a.exp # b.exp THEN a.exp < b.exp
    ELSE a.man <= b.man

\* 2.0_f64.powi(-val)
FPow2Neg(val) == Flt(FHalf, (-val) - 29)

\* ln 2
FLn2 == Flt(744261118, -30)

\* ln(1 + j/16) for j = 0..15
LnSixteenths ==
    <<FZero, Flt(1041523072, -34), Flt(1011748572, -33),
      Flt(738091233, -32), Flt(958394255, -32), Flt(583973207, -31),
      Flt(683874180, -31), Flt(779333613, -31), Flt(870729689, -31),
      Flt(958394255, -31), Flt(1042620095, -31), Flt(561833416, -30),
      Flt(600882877, -30), Flt(638561895, -30), Flt(674963409, -30),
      Flt(710171213, -30)>>

\* 1 + t2/3 + t2^2/5 + t2^3/7
LnSeries(t2) ==
    LET inv3 == FDiv(FOne, FromNat(3))
        inv5 == FDiv(FOne, FromNat(5))
        inv7 == FDiv(FOne, FromNat(7))
    IN  FAdd(FOne, FMul(t2, FAdd(inv3, FMul(t2, FAdd(inv5, FMul(t2, inv7))))))

\* f64::ln for x >= 1: x = 2^k * (1 + j/16) * g with 1 <= g < 17/16,
\* ln x = k ln 2 + ln(1 + j/16) + 2 atanh((g - 1) / (g + 1)).
FLn(x) ==
    LET k == x.exp + 29
        j == (x.man - FHalf) \div 33554432
        g == FDiv(Flt(x.man, -29), FNorm(16 + j, -4))
        t == FDiv(FromNat(g.man - FHalf), FNorm(g.man + FHalf, 0))
        lng == FMul(FromNat(2), FMul(t, LnSeries(FMul(t, t))))
    IN  FAdd(FAdd(FMul(FromNat(k), FLn2), LnSixteenths[j + 1]), lng)

U64Zero == [i \in BitPos |-> 0]

\* u64::MAX
U64Max == [i \in BitPos |-> 1]

\* `as u64` of a non-negative float: truncation, saturating at u64::MAX.
AsU64(x) ==
    IF x.man = 0 THEN U64Zero
    ELSE IF x.exp + 30 > 64 THEN U64Max
    ELSE [i \in BitPos |->
            LET k == (63 - i) - x.exp
            IN  IF k >= 0 /\ k <= 29 THEN (x.man \div Pow2(k)) % 2 ELSE 0]

\* a <= b on u64
LeqU64(a, b) ==
    \/ a = b
    \/ \E i \in BitPos : a[i] < b[i] /\ \A j \in 0..(i - 1) : a[j] = b[j]

F2Pow32 == Flt(FHalf, 3)

\* HyperLogLog::alpha_m
alpha_m(self) ==
    CASE self.m = 16 -> FDiv(FromNat(673), FromNat(1000))
      [] self.m = 32 -> FDiv(FromNat(697), FromNat(1000))
      [] self.m = 64 -> FDiv(FromNat(709), FromNat(1000))
      [] OTHER -> FDiv(FDiv(FromNat(7213), FromNat(10000)),
                       FAdd(FOne, FDiv(FDiv(FromNat(1079), FromNat(1000)),
                                       FromNat(self.m))))

\* The sum of 2^-registers[i] for lo <= i < hi, added pairwise.
RECURSIVE SumPow(_, _, _)
SumPow(registers, lo, hi) ==
    IF hi - lo = 1 THEN FPow2Neg(registers[lo])
    ELSE LET mid == (lo + hi) \div 2
         IN  FAdd(SumPow(registers, lo, mid), SumPow(registers, mid, hi))

\* raw_estimate of HyperLogLog::count
RawEstimate(self) ==
    LET m == FromNat(self.m)
        sum == SumPow(self.registers, 0, VecLen(self.registers))
    IN  FDiv(FMul(FMul(alpha_m(self), m), m), sum)

Zeros(self) == Cardinality({i \in DOMAIN self.registers : self.registers[i] = 0})

\* count() without the small range correction.
CountBranch_no_small_range(self) ==
    LET raw_estimate == RawEstimate(self)
    IN  IF FLeq(raw_estimate, FMul(FDiv(FOne, FromNat(30)), F2Pow32))
        THEN "raw"
        ELSE "large"

\* The return statement of HyperLogLog::count that produces the result.
CountBranch(self) ==
    LET m == FromNat(self.m)
        raw_estimate == RawEstimate(self)
    IN  IF FLeq(raw_estimate, FMul(FDiv(FromNat(5), FromNat(2)), m))
           /\ Zeros(self) # 0
        THEN "small"
        ELSE IF FLeq(raw_estimate, FMul(FDiv(FOne, FromNat(30)), F2Pow32))
        THEN "raw"
        ELSE "large"

\* HyperLogLog::count.  In the large range 1 - raw/2^32 is negative when
\* raw > 2^32: its ln is NaN, which `as u64` turns into 0; it is 0 when
\* raw = 2^32: -2^32 * ln 0 is +inf, which saturates.
Count(self) ==
    LET m == FromNat(self.m)
        raw_estimate == RawEstimate(self)
        branch == CountBranch(self)
        ratio == FDiv(raw_estimate, F2Pow32)
    IN  CASE branch = "small" ->
               AsU64(FMul(m, FLn(FDiv(m, FromNat(Zeros(self))))))
          [] branch = "raw" -> AsU64(raw_estimate)
          [] branch = "large" ->
               IF ~FLeq(ratio, FOne) THEN U64Zero
               ELSE IF FLeq(FOne, ratio) THEN U64Max
               ELSE AsU64(FMul(F2Pow32, FLn(FDiv(FOne, FSub(FOne, ratio)))))

(***************************************************************************)
(* FileStorage (src/src/storage/file.rs).  A key is the sequence of the    *)
(* segments its string has between the "/"s.  key_to_path joins            *)
(* "<key>.hll" to base_path: the segments before the last name directories *)
(* below base_path, the last one is the stem of the file name.  new()      *)
(* creates base_path and nothing ever creates a directory below it, so     *)
(* only "." names a directory that exists.  fs[stem] is the content of the *)
(* file stem.hll of base_path, None while there is no such file; a         *)
(* content is the sequence of the JSON values written to the file: none    *)
(* after File::create, one after write_all.                                *)
(***************************************************************************)
Keys == {<<"a">>, <<"b">>, <<".", "a">>, <<"x", "a">>}

Stems == {key[Len(key)] : key \in Keys}

\* FileStorage::key_to_path
key_to_path(key) ==
    [dirs |-> SubSeq(key, 1, Len(key) - 1), stem |-> key[Len(key)], ext |-> "hll"]

\* The directory of path exists.
DirExists(path) == \A i \in 1..Len(path.dirs) : path.dirs[i] = "."

\* path.exists()
PathExists(fs, path) == DirExists(path) /\ fs[path.stem] # None

\* The content File::create leaves before write_all: no bytes.
EmptyFile == <<>>

\* FileStorage::store: the result and the files after the call.
Store(fs, key, hll) ==
    LET path == key_to_path(key)
        serialized == Serialize(hll)
    IN  IF ~DirExists(path)
        THEN [res |-> Err("Io", "No such file or directory"), files |-> fs]
        ELSE [res |-> Ok(Unit),
              files |-> [fs EXCEPT ![path.stem] = Some(<<serialized>>)]]

\* FileStorage::load
Load(fs, key) ==
    LET path == key_to_path(key)
    IN  IF ~PathExists(fs, path) THEN Err("NotFound", key)
        ELSE LET contents == fs[path.stem][1]
             IN  IF contents = EmptyFile
                 THEN Err("Serialization", "EOF while parsing a value")
                 ELSE Deserialize(contents[1])

\* delete() that removes the file without looking whether it exists.
Delete_unchecked(fs, key) ==
    LET path == key_to_path(key)
    IN  IF PathExists(fs, path)
        THEN [res |-> Ok(Unit), files |-> [fs EXCEPT ![path.stem] = None]]
        ELSE [res |-> Err("Io", "No such file or directory"), files |-> fs]

\* FileStorage::delete: the result and the files after the call.
Delete(fs, key) ==
    LET path == key_to_path(key)
    IN  [res |-> Ok(Unit),
         files |-> IF PathExists(fs, path)
                   THEN [fs EXCEPT ![path.stem] = None]
                   ELSE fs]

\* FileStorage::exists
Exists(fs, key) == Ok(PathExists(fs, key_to_path(key)))

(***************************************************************************)
(* The state machine: a caller that owns up to three estimators.           *)
(*   hlls[s]  <<>> while slot s holds no estimator, else <<estimator>>     *)
(*   fed[s]   history variable: the elements added to s, directly or       *)
(*            through the estimators merged into it                        *)
(*   last     the last call: its name, receiver, argument and result,      *)
(*            whether the element of an add had been fed to the receiver   *)
(*            before, the receiver as it was before an add, and the last   *)
(*            pair of estimators of which one is a clone of the other      *)
(*   files    the files of the storage directory                           *)
(*   reqs     the requests the command layer is serving                    *)
(***************************************************************************)
Live(s) == hlls[s] # None
Get(s) == hlls[s][1]

\* The requests the command layer serves.
Requests == {"r1", "r2"}

\* No request yet.
Idle == [pc |-> "idle"]

NoSlot == "-"
NoArg == [ty |-> "none", v |-> "-"]

Call(op, dst, src, arg, res) ==
    [op |-> op, dst |-> dst, src |-> src, arg |-> arg, res |-> res,
     again |-> op \in {"add", "add_str"} /\ arg \in fed[dst],
     before |-> IF op \in {"add", "add_str"} THEN hlls[dst]
                ELSE IF op \in {"store", "delete"} THEN Some(files)
                ELSE None,
     twin |-> IF op = "clone" THEN {dst, src}
              ELSE IF op = "init" THEN {} ELSE last.twin]

Init ==
    /\ hlls = [s \in Slots |-> None]
    /\ fed = [s \in Slots |-> {}]
    /\ last = Call("init", NoSlot, NoSlot, NoArg, Ok(Unit))
    /\ files = [f \in Stems |-> None]
    /\ reqs = [r \in Requests |-> Idle]

\* let s = HyperLogLog::new(precision)?  An error leaves the slot empty.
NewOp(s, precision) ==
    /\ ~Live(s)
    /\ LET r == New(precision)
       IN  /\ hlls' = IF r.ok THEN [hlls EXCEPT ![s] = Some(r.val)] ELSE hlls
           /\ last' = Call("new", s, NoSlot, [ty |-> "u8", v |-> precision],
                           IF r.ok THEN Ok(Unit) ELSE r)
    /\ UNCHANGED <<fed, files, reqs>>

\* s.add(&element)
AddOp(s, element) ==
    /\ Live(s)
    /\ hlls' = [hlls EXCEPT ![s] = Some(Add(Get(s), element))]
    /\ fed' = [fed EXCEPT ![s] = @ \cup {element}]
    /\ last' = Call("add", s, NoSlot, element, Ok(Unit))
    /\ UNCHANGED <<files, reqs>>

\* s.add_str(element)
AddStrOp(s, element) ==
    /\ Live(s)
    /\ hlls' = [hlls EXCEPT ![s] = Some(AddStr(Get(s), element))]
    /\ fed' = [fed EXCEPT ![s] = @ \cup {element}]
    /\ last' = Call("add_str", s, NoSlot, element, Ok(Unit))
    /\ UNCHANGED <<files, reqs>>

\* d.merge(&s).  The borrow checker rules out d = s.
MergeOp(d, s) ==
    /\ d # s
    /\ Live(d)
    /\ Live(s)
    /\ LET r == Merge(Get(d), Get(s))
       IN  /\ hlls' = [hlls EXCEPT ![d] = Some(r.self)]
           /\ fed' = IF r.res.ok THEN [fed EXCEPT ![d] = @ \cup fed[s]] ELSE fed
           /\ last' = Call("merge", d, s, NoArg, r.res)
    /\ UNCHANGED <<files, reqs>>

\* let d = s.clone()
CloneOp(d, s) ==
    /\ ~Live(d)
    /\ Live(s)
    /\ hlls' = [hlls EXCEPT ![d] = Some(Clone(Get(s)))]
    /\ fed' = [fed EXCEPT ![d] = fed[s]]
    /\ last' = Call("clone", d, s, NoArg, Ok(Unit))
    /\ UNCHANGED <<files, reqs>>

\* s = serde_json::from_str(&serde_json::to_string(&s)?)?
RoundTripOp(s) ==
    /\ Live(s)
    /\ LET r == Deserialize(Serialize(Get(s)))
       IN  /\ hlls' = IF r.ok THEN [hlls EXCEPT ![s] = Some(r.val)] ELSE hlls
           /\ last' = Call("roundtrip", s, NoSlot, NoArg,
                           IF r.ok THEN Ok(Unit) ELSE r)
    /\ UNCHANGED <<fed, files, reqs>>

\* The calls a caller makes with the estimators S, the precisions P and the
\* elements E.
NextOn(S, P, E) ==
    \/ \E s \in S, p \in P : NewOp(s, p)
    \/ \E s \in S, e \in E : AddOp(s, e)
    \/ \E s \in S, e \in E \cap StrElements : AddStrOp(s, e)
    \/ \E d \in S, s \in S : MergeOp(d, s)
    \/ \E d \in S, s \in S : CloneOp(d, s)
    \/ \E s \in S : RoundTripOp(s)

Next == NextOn(PairSlots, PrecisionInputs, Elements)

Spec == Init /\ [][Next]_vars

\* Three estimators of one precision.
NextThree == NextOn(Slots, FewPrecisions, FewElements)

SpecThree == Init /\ [][NextThree]_vars

(***************************************************************************)
(* A caller that reads count() between its adds and merges.                *)
(***************************************************************************)
\* A count() that clears the registers it has read.
CountOp_clearing(s) ==
    /\ Live(s)
    /\ hlls' = [hlls EXCEPT ![s] = Some([Get(s) EXCEPT !.registers = ZeroVec(Get(s).m)])]
    /\ last' = Call("count", s, NoSlot, NoArg, Ok(Count(Get(s))))
    /\ UNCHANGED <<fed, files, reqs>>

\* let n = s.count()
CountOp(s) ==
    /\ Live(s)
    /\ last' = Call("count", s, NoSlot, NoArg, Ok(Count(Get(s))))
    /\ UNCHANGED <<hlls, fed, files, reqs>>

NextRead ==
    \/ NextOn(PairSlots, StorePrecisions, FewElements)
    \/ \E s \in PairSlots : CountOp(s)

SpecRead == Init /\ [][NextRead]_vars

(***************************************************************************)
(* A caller of the storage: it builds estimators and stores, loads,        *)
(* checks and deletes them under the keys.                                 *)
(***************************************************************************)
KeyArg(key) == [ty |-> "key", v |-> key]

\* storage.store(key, &s).await
StoreOp(key, s) ==
    /\ Live(s)
    /\ LET r == Store(files, key, Get(s))
       IN  /\ files' = r.files
           /\ last' = Call("store", NoSlot, s, KeyArg(key), r.res)
    /\ UNCHANGED <<hlls, fed, reqs>>

\* storage.load(key).await
LoadOp(key) ==
    /\ last' = Call("load", NoSlot, NoSlot, KeyArg(key), Load(files, key))
    /\ UNCHANGED <<hlls, fed, files, reqs>>

\* storage.delete(key).await
DeleteOp(key) ==
    /\ LET r == Delete(files, key)
       IN  /\ files' = r.files
           /\ last' = Call("delete", NoSlot, NoSlot, KeyArg(key), r.res)
    /\ UNCHANGED <<hlls, fed, reqs>>

\* storage.exists(key).await
ExistsOp(key) ==
    /\ last' = Call("exists", NoSlot, NoSlot, KeyArg(key), Exists(files, key))
    /\ UNCHANGED <<hlls, fed, files, reqs>>

NextStore ==
    \/ \E s \in PairSlots, p \in StorePrecisions : NewOp(s, p)
    \/ \E s \in PairSlots, e \in StoreElements : AddOp(s, e)
    \/ \E d \in PairSlots, s \in PairSlots : MergeOp(d, s)
    \/ \E key \in Keys, s \in PairSlots : StoreOp(key, s)
    \/ \E key \in Keys : LoadOp(key)
    \/ \E key \in Keys : DeleteOp(key)
    \/ \E key \in Keys : ExistsOp(key)

SpecStore == Init /\ [][NextStore]_vars

(***************************************************************************)
(* The command layer (src/src/api/handlers.rs): pfadd and pfmerge over the *)
(* storage.  Each request is a task; it gives way to the other tasks at    *)
(* its awaits: after a load, and in store after File::create and after     *)
(* write_all.  reqs[r] is the request r is serving: the handler's          *)
(* arguments and locals, the place it has reached (pc), its result once it *)
(* is done, and (history) the files as they were when it began.            *)
(***************************************************************************)
\* The precision pfadd gives the estimator of a key that is not found.
DefaultPrecision == 14

\* payload.elements of the pfadd requests.
Payloads ==
    { <<[ty |-> "str", v |-> "user:1"]>>,
      <<[ty |-> "str", v |-> "user:2"]>> }

\* The keys of the requests served one at a time.
ServeKeys == {<<"a">>, <<"b">>, <<"x", "a">>}

\* The keys of the requests served together.
ApiKeys == {<<"a">>}

\* payload.source_keys of the pfmerge requests.
SourceLists == {<<>>, <<<<"a">>>>, <<<<"a">>, <<"a">>>>, <<<<"a">>, <<"b">>>>}

\* A storage directory that holds an empty precision-4 estimator under a.
InitApi ==
    /\ hlls = [s \in Slots |-> None]
    /\ fed = [s \in Slots |-> {}]
    /\ last = Call("init", NoSlot, NoSlot, NoArg, Ok(Unit))
    /\ files = Store([f \in Stems |-> None], <<"a">>, New(MinPrecision).val).files
    /\ reqs = [r \in Requests |-> Idle]

\* for element in &payload.elements { hll.add_str(element) }
AddStrSeq(hll, elements) ==
    LET upto[i \in 0..Len(elements)] ==
            IF i = 0 THEN hll ELSE AddStr(upto[i - 1], elements[i])
    IN  upto[Len(elements)]

\* pfadd's match on the result of load, with every error taken as "not
\* found".
pfadd_match_any_error(loaded) ==
    IF loaded.ok THEN loaded ELSE New(DefaultPrecision)

\* pfadd's match on the result of load: the estimator to add to, or the
\* error to return.
pfadd_match(loaded) ==
    IF loaded.ok THEN loaded
    ELSE IF loaded.kind = "NotFound" THEN New(DefaultPrecision)
    ELSE loaded

Request(pc, op, key, elements, sources, i, hll, res, start) ==
    [pc |-> pc, op |-> op, key |-> key, elements |-> elements,
     sources |-> sources, i |-> i, hll |-> hll, res |-> res, start |-> start]

\* The request r returns res.
Done(r, res) ==
    /\ reqs' = [reqs EXCEPT ![r] = [@ EXCEPT !.pc = "done", !.res = res]]
    /\ last' = Call(reqs[r].op, r, NoSlot, KeyArg(reqs[r].key), res)

\* pfadd up to its store: load, match, add the elements.
PfAddLoad(r, key, elements) ==
    /\ reqs[r].pc = "idle"
    /\ LET hll == pfadd_match(Load(files, key))
           q == Request("create", "pfadd", key, elements, <<>>, 0, None,
                        Ok(Unit), files)
       IN  IF hll.ok
           THEN /\ reqs' = [reqs EXCEPT ![r] =
                              [q EXCEPT !.hll = Some(AddStrSeq(hll.val, elements))]]
                /\ UNCHANGED last
           ELSE /\ reqs' = [reqs EXCEPT ![r] = [q EXCEPT !.pc = "done", !.res = hll]]
                /\ last' = Call("pfadd", r, NoSlot, KeyArg(key), hll)
    /\ UNCHANGED <<hlls, fed, files>>

\* pfmerge up to the load of its first source key.
PfMergeLoad(r, dest_key, source_keys) ==
    /\ reqs[r].pc = "idle"
    /\ LET q == Request("merge", "pfmerge", dest_key, <<>>, source_keys, 2,
                        None, Ok(Unit), files)
           fail(e) ==
               /\ reqs' = [reqs EXCEPT ![r] = [q EXCEPT !.pc = "done", !.res = e]]
               /\ last' = Call("pfmerge", r, NoSlot, KeyArg(dest_key), e)
       IN  IF source_keys = <<>>
           THEN fail(Err("InvalidKey", "No source keys provided"))
           ELSE LET merged == Load(files, source_keys[1])
                IN  IF merged.ok
                    THEN /\ reqs' = [reqs EXCEPT ![r] =
                                       [q EXCEPT !.hll = Some(merged.val)]]
                         /\ UNCHANGED last
                    ELSE fail(merged)
    /\ UNCHANGED <<hlls, fed, files>>

\* One turn of pfmerge's loop over source_keys[1..], or the end of the loop.
PfMergeNext(r) ==
    /\ reqs[r].pc = "merge"
    /\ LET q == reqs[r]
       IN  IF q.i > Len(q.sources)
           THEN /\ reqs' = [reqs EXCEPT ![r] = [q EXCEPT !.pc = "create"]]
                /\ UNCHANGED last
           ELSE LET hll == Load(files, q.sources[q.i])
                IN  IF ~hll.ok THEN Done(r, hll)
                    ELSE LET m == Merge(q.hll[1], hll.val)
                         IN  IF ~m.res.ok THEN Done(r, m.res)
                             ELSE /\ reqs' = [reqs EXCEPT ![r] =
                                                [q EXCEPT !.hll = Some(m.self),
                                                          !.i = q.i + 1]]
                                  /\ UNCHANGED last
    /\ UNCHANGED <<hlls, fed, files>>

\* store up to the end of File::create.
StoreCreate(r) ==
    /\ reqs[r].pc = "create"
    /\ LET path == key_to_path(reqs[r].key)
       IN  IF ~DirExists(path)
           THEN /\ Done(r, Err("Io", "No such file or directory"))
                /\ UNCHANGED files
           ELSE /\ files' = [files EXCEPT ![path.stem] = Some(EmptyFile)]
                /\ reqs' = [reqs EXCEPT ![r] = [@ EXCEPT !.pc = "write"]]
                /\ UNCHANGED last
    /\ UNCHANGED <<hlls, fed>>

\* store from write_all to its return, and the handler's return.
StoreWrite(r) ==
    /\ reqs[r].pc = "write"
    /\ files' = [files EXCEPT ![key_to_path(reqs[r].key).stem] =
                    Some(<<Serialize(reqs[r].hll[1])>>)]
    /\ Done(r, Ok(Unit))
    /\ UNCHANGED <<hlls, fed>>

\* write_all fails: store and the handler return the error.
StoreWriteFails(r) ==
    /\ reqs[r].pc = "write"
    /\ Done(r, Err("Io", "write failed"))
    /\ UNCHANGED <<hlls, fed, files>>

\* The requests served together.
NextApi ==
    \/ \E r \in Requests, key \in ApiKeys, elements \in Payloads :
          PfAddLoad(r, key, elements)
    \/ \E r \in Requests, key \in ApiKeys, sources \in SourceLists :
          PfMergeLoad(r, key, sources)
    \/ \E r \in Requests : PfMergeNext(r)
    \/ \E r \in Requests : StoreCreate(r)
    \/ \E r \in Requests : StoreWrite(r)
    \/ \E r \in Requests : StoreWriteFails(r)

SpecApi == InitApi /\ [][NextApi]_vars

\* No other request is being served.
Alone(r) == \A q \in Requests \ {r} : reqs[q].pc \in {"idle", "done"}

\* pfadd requests served one at a time.
NextServe ==
    \/ \E r \in Requests, key \in ServeKeys, elements \in Payloads :
          Alone(r) /\ PfAddLoad(r, key, elements)
    \/ \E r \in Requests : StoreCreate(r)
    \/ \E r \in Requests : StoreWrite(r)
    \/ \E r \in Requests : StoreWriteFails(r)

SpecServe == InitApi /\ [][NextServe]_vars

(***************************************************************************)
(* Construction alone, over every u8 precision.                            *)
(***************************************************************************)
U8Max == 255

NewCaller == "h1"

NextNew == \E p \in 0..U8Max : NewOp(NewCaller, p)

SpecNew == Init /\ [][NextNew]_vars

(***************************************************************************)
(* count() along the filling of one estimator.  The caller raises the      *)
(* registers once each, in index order and with ranks that do not          *)
(* increase, and at any point of the filling makes one add of any rank to  *)
(* one of the first or last two registers.                                 *)
(***************************************************************************)
CountPrecisions == {4}

\* Rank 1; 26, which puts count() in its large range when every register
\* holds it; 30, which puts the raw estimate above 2^32.
CountRanks == {1, 26, 30}

CountCaller == "h1"

\* The word with index idx in its top p bits and rank-1 zeros, then a one,
\* after them.
HashWith(p, idx, rank) ==
    [i \in BitPos |->
        IF i < p THEN (idx \div Pow2(p - 1 - i)) % 2
        ELSE IF i = p + rank - 1 THEN 1 ELSE 0]

\* The u64 element whose hash is HashWith(p, idx, rank).
ElementWith(p, idx, rank) == [ty |-> "u64 of hash", v |-> HashWith(p, idx, rank)]

NonZero(self) == {i \in DOMAIN self.registers : self.registers[i] # 0}

\* Every register raised so far was raised by one add, and the registers do
\* not increase with the index.
Filled(s) ==
    /\ Cardinality(fed[s]) = Cardinality(NonZero(Get(s)))
    /\ \A i \in DOMAIN Get(s).registers :
          i > 0 => Get(s).registers[i] <= Get(s).registers[i - 1]

\* The registers the next add goes to: the first zero one, the first two and
\* the last two.
NextIdx(self) ==
    {0, 1, self.m - 2, self.m - 1}
        \cup {i \in DOMAIN self.registers : i = Cardinality(NonZero(self))}

NextCount ==
    \/ \E p \in CountPrecisions : NewOp(CountCaller, p)
    \/ /\ Live(CountCaller)
       /\ Filled(CountCaller)
       /\ \E r \in CountRanks, idx \in NextIdx(Get(CountCaller)) :
             AddOp(CountCaller, ElementWith(Get(CountCaller).precision, idx, r))

SpecCount == Init /\ [][NextCount]_vars

(***************************************************************************)
(* Properties.                                                             *)
(***************************************************************************)
LiveSlots == {s \in Slots : Live(s)}

AllZero(v) == \A i \in DOMAIN v : v[i] = 0

\* C1: new(precision) succeeds exactly for the precisions 4..16, and then
\* yields an estimator of that precision with 2^precision registers, all 0;
\* for every other u8 it returns InvalidPrecision carrying the value and no
\* estimator comes into being.
C1_NewValidatesPrecision ==
    last.op = "new" =>
        LET p == last.arg.v
        IN  IF p \in 4..16
            THEN /\ last.res.ok
                 /\ Live(last.dst)
                 /\ Get(last.dst).precision = p
                 /\ Get(last.dst).m = 2 ^ p
                 /\ DOMAIN Get(last.dst).registers = 0..(2 ^ p - 1)
                 /\ AllZero(Get(last.dst).registers)
            ELSE /\ ~last.res.ok
                 /\ last.res.kind = "InvalidPrecision"
                 /\ last.res.payload = p
                 /\ LiveSlots = {}

C1_Witness ==
    /\ last.op = "new"
    /\ last.arg.v = 16
    /\ Live(last.dst)
    /\ VecLen(Get(last.dst).registers) = 65536

\* C2: every estimator has registers.len() = m = 2^precision after every
\* step, and no step changes the precision or m of an estimator.
C2_ShapeFixed ==
    [][\A s \in Slots :
          /\ hlls'[s] # None =>
                /\ DOMAIN hlls'[s][1].registers = 0..(hlls'[s][1].m - 1)
                /\ hlls'[s][1].m = 2 ^ hlls'[s][1].precision
          /\ (hlls[s] # None /\ hlls'[s] # None) =>
                /\ hlls'[s][1].precision = hlls[s][1].precision
                /\ hlls'[s][1].m = hlls[s][1].m]_vars

C2_Witness ==
    /\ last.op = "roundtrip"
    /\ last.res.ok
    /\ fed[last.dst] # {}
    /\ \E t \in LiveSlots : Get(t).precision # Get(last.dst).precision

\* C3: no step lowers a register of an estimator.
C3_RegistersMonotone ==
    [][\A s \in Slots :
          (hlls[s] # None /\ hlls'[s] # None) =>
              \A i \in DOMAIN hlls[s][1].registers :
                  /\ i \in DOMAIN hlls'[s][1].registers
                  /\ hlls'[s][1].registers[i] >= hlls[s][1].registers[i]]_vars

C3_Witness ==
    /\ last.op = "merge"
    /\ last.res.ok
    /\ fed[last.src] # {}
    /\ \E i \in DOMAIN Get(last.dst).registers :
          /\ Get(last.dst).registers[i] > Get(last.src).registers[i]
          /\ Get(last.src).registers[i] > 0

\* C4: a successful d.merge(&s) leaves each register of d at the maximum of
\* its old value and s's register, and leaves s as it was.
C4_MergeIsMax ==
    [][(last'.op = "merge" /\ last'.res.ok) =>
          /\ \A i \in DOMAIN hlls[last'.dst][1].registers :
                hlls'[last'.dst][1].registers[i] =
                    Max(hlls[last'.dst][1].registers[i],
                        hlls[last'.src][1].registers[i])
          /\ DOMAIN hlls'[last'.dst][1].registers =
                DOMAIN hlls[last'.dst][1].registers
          /\ hlls'[last'.src] = hlls[last'.src]]_vars

C4_Witness ==
    /\ last.op = "merge"
    /\ last.res.ok
    /\ \E i, j \in DOMAIN Get(last.dst).registers :
          /\ Get(last.dst).registers[i] > Get(last.src).registers[i]
          /\ Get(last.dst).registers[j] = Get(last.src).registers[j]
          /\ Get(last.src).registers[j] > 0

\* The orders in which the elements of S can be added.
Orders(S) ==
    {f \in [1..Cardinality(S) -> S] :
        \A i, j \in 1..Cardinality(S) : i # j => f[i] # f[j]}

\* C5: the registers of an estimator built by adds and merges are those of
\* a single fresh estimator of the same precision to which every element
\* fed to it or to the estimators merged into it is added, in any order.
C5_MergeIsUnion ==
    \A s \in LiveSlots :
        \A order \in Orders(fed[s]) :
            Get(s).registers =
                AddSeq(New(Get(s).precision).val, order).registers

C5_Witness ==
    /\ last.op = "merge"
    /\ last.res.ok
    /\ fed[last.src] # {}
    /\ fed[last.dst] # fed[last.src]
    /\ Get(last.dst).registers # Get(last.src).registers
    /\ Cardinality(fed[last.dst]) = Cardinality(Elements)

Merged(a, b) == Merge(a, b).self

\* C6: on estimators of equal precision merge is commutative, associative
\* (also under exchange of the second and third operand) and idempotent
\* (with itself, with a clone, with an estimator already merged).
C6_MergeAlgebra ==
    \A x, y, z \in LiveSlots :
        LET A == Get(x)
            B == Get(y)
            C == Get(z)
        IN  (A.precision = B.precision /\ B.precision = C.precision) =>
                /\ Merged(A, B).registers = Merged(B, A).registers
                /\ Merged(Merged(A, B), C).registers
                      = Merged(A, Merged(B, C)).registers
                /\ Merged(Merged(A, B), C).registers
                      = Merged(Merged(A, C), B).registers
                /\ Merged(A, A) = A
                /\ Merged(A, Clone(A)) = A
                /\ Merged(Merged(A, B), B) = Merged(A, B)

C6_Witness ==
    /\ LiveSlots = Slots
    /\ \A x, y \in Slots :
          /\ Get(x).precision = Get(y).precision
          /\ ~AllZero(Get(x).registers)
          /\ x # y => Get(x).registers # Get(y).registers
    /\ \E x, y \in Slots :
          /\ Merged(Get(x), Get(y)).registers # Get(x).registers
          /\ Merged(Get(x), Get(y)).registers # Get(y).registers

\* C7: d.merge(&s) with different precisions fails with the precision
\* mismatch error kind and changes neither estimator.
C7_MismatchIsOwnErrorKind ==
    [][(last'.op = "merge"
          /\ hlls[last'.dst][1].precision # hlls[last'.src][1].precision) =>
          /\ ~last'.res.ok
          /\ last'.res.kind = "PrecisionMismatch"
          /\ hlls' = hlls]_vars

\* C8: count() after an add is never less than count() before it.
C8_CountMonotone ==
    last.op \in {"add", "add_str"} =>
        LeqU64(Count(last.before[1]), Count(Get(last.dst)))

\* C9: adding an element that was fed to the estimator before changes no
\* register, whatever adds and merges came in between.
C9_ReAddChangesNothing ==
    [][(last'.op \in {"add", "add_str"} /\ last'.arg \in fed[last'.dst]) =>
          hlls'[last'.dst] = hlls[last'.dst]]_vars

C9_Witness ==
    /\ last.op \in {"add", "add_str"}
    /\ last.again
    /\ Cardinality(fed[last.dst]) >= 2
    /\ \E i \in DOMAIN Get(last.dst).registers :
          LET alone == Add(New(Get(last.dst).precision).val, last.arg)
          IN  /\ alone.registers[i] > 0
              /\ alone.registers[i] < Get(last.dst).registers[i]

\* C10: two estimators of the same precision that were fed the same
\* elements hold the same registers.
C10_SameInputSameRegisters ==
    \A s, t \in LiveSlots :
        (Get(s).precision = Get(t).precision /\ fed[s] = fed[t]) =>
            Get(s).registers = Get(t).registers

C10_Witness ==
    \E s, t \in LiveSlots :
        /\ s # t
        /\ Get(s).precision = Get(t).precision
        /\ fed[s] = fed[t]
        /\ Cardinality(fed[s]) >= 2
        /\ last.op = "add"
        /\ ~last.again

\* C11: serializing an estimator and deserializing the result gives an
\* estimator with the same precision, register count, registers and count(),
\* and so does loading a key under which the estimator was just stored.
C11_RoundTrip ==
    /\ \A s \in LiveSlots :
          LET e == Get(s)
              r == Deserialize(Serialize(e))
          IN  /\ r.ok
              /\ r.val.precision = e.precision
              /\ r.val.m = e.m
              /\ DOMAIN r.val.registers = DOMAIN e.registers
              /\ r.val.registers = e.registers
              /\ Count(r.val) = Count(e)
    /\ (last.op = "store" /\ last.res.ok) =>
          LET e == Get(last.src)
              r == Load(files, last.arg.v)
          IN  /\ r.ok
              /\ r.val.precision = e.precision
              /\ r.val.m = e.m
              /\ r.val.registers = e.registers
              /\ Count(r.val) = Count(e)

C11_Witness ==
    /\ last.op = "store"
    /\ last.res.ok
    /\ Cardinality(fed[last.src]) >= 2
    /\ \E i \in DOMAIN Get(last.src).registers : Get(last.src).registers[i] >= 10
\* C12: d = s.clone() has the precision and the registers of s and leaves s
\* as it was; afterwards an add or a merge on one estimator changes no other
\* estimator, the clone or the original included.
C12_CloneIndependent ==
    [][/\ last'.op = "clone" =>
             /\ hlls'[last'.dst][1].precision = hlls[last'.src][1].precision
             /\ hlls'[last'.dst][1].registers = hlls[last'.src][1].registers
             /\ hlls'[last'.src] = hlls[last'.src]
       /\ last'.op \in {"add", "add_str", "merge"} =>
             \A s \in Slots \ {last'.dst} : hlls'[s] = hlls[s]]_vars

C12_Witness ==
    /\ last.op \in {"add", "add_str", "merge"}
    /\ last.dst \in last.twin
    /\ \E t \in last.twin \ {last.dst} :
          /\ fed[t] # {}
          /\ Get(t).precision = Get(last.dst).precision
          /\ Get(t).registers # Get(last.dst).registers
\* C13: count() returns a u64 and fails in no state, and the call changes
\* no estimator: neither the one it reads nor any other.
C13_CountIsPureRead ==
    [][last'.op = "count" =>
          /\ last'.res.ok
          /\ last'.res.val \in [BitPos -> {0, 1}]
          /\ hlls' = hlls]_vars

C13_Witness ==
    /\ last.op = "count"
    /\ last.res.val # U64Zero
    /\ Cardinality(fed[last.dst]) >= 2
    /\ \E t \in LiveSlots : t # last.dst /\ fed[t] # {} /\ fed[t] # fed[last.dst]
\* The u64 n, for n below 2^16.
SmallU64(n) == U64(<<0, 0, 0, n>>)

\* C14: count() of a freshly constructed estimator of precision 10 or more
\* is less than 10.
C14_EmptyCountNearZero ==
    (last.op = "new" /\ last.res.ok /\ last.arg.v >= 10) =>
        /\ LeqU64(Count(Get(last.dst)), SmallU64(10))
        /\ Count(Get(last.dst)) # SmallU64(10)

C14_Witness ==
    /\ last.op = "new"
    /\ last.res.ok
    /\ last.arg.v = 10
    /\ AllZero(Get(last.dst).registers)
    /\ Zeros(Get(last.dst)) = 1024
    /\ CountBranch(Get(last.dst)) = "small"
\* The number whose p binary digits are the top p bits of h.
TopBits(h, p) ==
    CHOOSE n \in 0..(2 ^ p - 1) :
        \A i \in 0..(p - 1) : (n \div 2 ^ (p - 1 - i)) % 2 = h[i]

\* One more than the number of zero bits of h from position p up to its
\* first one bit; 65 - p when there is no one bit from position p on.
RankOf(h, p) ==
    IF \A i \in p..63 : h[i] = 0 THEN 65 - p
    ELSE LET first == CHOOSE i \in p..63 :
                          h[i] = 1 /\ \A j \in p..(i - 1) : h[j] = 0
         IN  1 + (first - p)

\* C16: add on a precision-p estimator takes the top p bits of the hash as
\* index and 1 + leadingZeros(hash << p), or 65 - p when hash << p is 0, as
\* rank; the rank is in 1..65-p; the register at the index becomes the
\* maximum of its value and the rank and no other register changes.
C16_AddIndexAndRank ==
    [][last'.op \in {"add", "add_str"} =>
          \A h \in {XxHash64(0, last'.arg)} :
          \A index \in {TopBits(h, hlls[last'.dst][1].precision)} :
          \A rank \in {RankOf(h, hlls[last'.dst][1].precision)} :
          LET self == hlls[last'.dst][1]
              p == self.precision
          IN  /\ index \in DOMAIN self.registers
              /\ rank \in 1..(65 - p)
              /\ hlls'[last'.dst][1] =
                    [self EXCEPT !.registers =
                        [i \in DOMAIN self.registers |->
                            IF i = index THEN Max(self.registers[i], rank)
                            ELSE self.registers[i]]]]_vars

C16_Witness ==
    /\ last.op = "add"
    /\ IsZeroU64(Shl(XxHash64(0, last.arg), Get(last.dst).precision))
    /\ Get(last.dst).registers[0] = 65 - Get(last.dst).precision
    /\ last.before[1].registers[0] \in 1..4
    /\ \E i \in DOMAIN Get(last.dst).registers :
          i # 0 /\ Get(last.dst).registers[i] # 0
\* C17: every register of every estimator is in 0..59.
C17_RegistersUpTo59 ==
    \A s \in LiveSlots :
        \A i \in DOMAIN Get(s).registers : Get(s).registers[i] \in 0..59

\* C17, amended: every register of every estimator is in 0..65-precision,
\* which is 0..61 at precision 4.
C17_RegistersUpToMaxRank ==
    \A s \in LiveSlots :
        \A i \in DOMAIN Get(s).registers :
            Get(s).registers[i] \in 0..(65 - Get(s).precision)

C17_Witness ==
    /\ last.op = "merge"
    /\ last.res.ok
    /\ \E i \in DOMAIN Get(last.dst).registers :
          Get(last.dst).registers[i] = 65 - Get(last.dst).precision
    /\ \E i \in DOMAIN Get(last.dst).registers :
          Get(last.dst).registers[i] \in 1..59
\* The u64 nearest to the non-negative float x, halves rounded up.
RoundU64(x) == AsU64(FAdd(x, Flt(FHalf, -30)))

\* alpha for m registers, as the claim lists it.
AlphaFor(m) ==
    CASE m = 16 -> FDiv(FromNat(673), FromNat(1000))
      [] m = 32 -> FDiv(FromNat(697), FromNat(1000))
      [] m = 64 -> FDiv(FromNat(709), FromNat(1000))
      [] OTHER -> FDiv(FDiv(FromNat(7213), FromNat(10000)),
                       FAdd(FOne, FDiv(FDiv(FromNat(1079), FromNat(1000)),
                                       FromNat(m))))

\* C18: count() is the rounding to an unsigned integer of
\*   m * ln(m / zeroRegisters)  if rawEstimate <= 2.5 m and a register is 0,
\*   rawEstimate                otherwise if rawEstimate <= 2^32 / 30,
\*   -2^32 * ln(1 - rawEstimate / 2^32)  otherwise,
\* where rawEstimate = alpha * m^2 / sum(2^-registers[i]).  Nothing is
\* required where the last expression has no value (rawEstimate >= 2^32).
C18_CountByRange ==
    \A s \in LiveSlots :
        LET e == Get(s)
            m == FromNat(e.m)
            sum == SumPow(e.registers, 0, e.m)
            rawEstimate == FDiv(FMul(AlphaFor(e.m), FMul(m, m)), sum)
            zeroRegisters == Cardinality({i \in 0..(e.m - 1) : e.registers[i] = 0})
            ratio == FDiv(rawEstimate, F2Pow32)
        IN  IF FLeq(rawEstimate, FDiv(FMul(FromNat(5), m), FromNat(2)))
               /\ zeroRegisters > 0
            THEN Count(e) = RoundU64(FMul(m, FLn(FDiv(m, FromNat(zeroRegisters)))))
            ELSE IF FLeq(rawEstimate, FDiv(F2Pow32, FromNat(30)))
            THEN Count(e) = RoundU64(rawEstimate)
            ELSE FLeq(FOne, ratio)
                 \/ Count(e) = RoundU64(FMul(F2Pow32,
                                   FLn(FDiv(FOne, FSub(FOne, ratio)))))
\* The keys k1 and k2 name the same file of the storage directory.
SameFile(k1, k2) ==
    /\ DirExists(key_to_path(k1))
    /\ DirExists(key_to_path(k2))
    /\ key_to_path(k1).stem = key_to_path(k2).stem

FreshDefault == [precision |-> 14, m |-> 16384, registers |-> [i \in 0..16383 |-> 0]]

C20_NoLostUpdate ==
    (\A r \in Requests : reqs[r].pc = "done" /\ reqs[r].res.ok) =>
        \A r \in Requests :
            LET stored == Load(files, reqs[r].key)
                mine == reqs[r].hll[1]
            IN  /\ stored.ok
                /\ stored.val.precision = mine.precision
                /\ \A i \in DOMAIN mine.registers :
                      stored.val.registers[i] >= mine.registers[i]

====
